---- MODULE Spec2Model ----
(***************************************************************************)
(* The M-Pesa payment gateway of saleor (saleor/payment/gateways/mpesa):   *)
(* capture, confirm, refund, void and process_payment as a sequential      *)
(* program with a call stack, the process-wide token cache, the clock and  *)
(* the upstream HTTP API as a nondeterministic environment.                *)
(***************************************************************************)
EXTENDS Integers, Sequences, FiniteSets, TLC

(* ------------------------------ bounds --------------------------------- *)
\* deepest call stack explored (process_payment + recursive capture/confirm)
MaxDepth == 3
\* no new top-level operation starts once the upstream issued this many tokens
MaxTokens == 2
\* no new top-level operation starts after this clock value
MaxTime == 0

(* --------------------------- program constants ------------------------- *)
CACHE_TTL == 45 * 10
ConfirmSleep == 3
ProcessSleep == 10

PyNone == "<None>"
InvalidAccessToken == "Invalid Access Token"
BeingProcessed == "The transaction is being processed"
ProcessedSuccessfully == "The service request is processed successfully."
CaptureBodyError == "Payment not processed. Kindly check the phone number provided and try again."
CaptureInternalError == "An internal error occured. Kindly try again later."
ConfirmBodyError == "The payment couldn't be confirmed. Kindly try again after a while."
ConfirmInternalError == "An internal error occured. Kindly try again later."
ConfirmDeclined == "The transaction was declined. Kindly check that you've provided the correct phone number and try again."
RefundInternalError == "An internal error occurred. Kindly try again later."
CURRENT_SITE_name == "site"

(* ------------------------------ inputs --------------------------------- *)
Configs == {"A", "B"}
Payments == {"p1", "p2"}
CheckoutIds == {"ws_CO_1", "ws_CO_2"}

\* GatewayConfig.connection_params as built by _initialize_plugin_configuration
connection_params(c) ==
    [consumer_key |-> "key" \o c,
     consumer_secret |-> "secret" \o c,
     base_url |-> "https://" \o c \o "/",
     shortcode |-> "17437" \o c,
     passkey |-> "pass" \o c,
     callback_url |-> "https://cb" \o c,
     initiator_security_credential |-> "cred" \o c,
     initiator_name |-> "apitest" \o c]

\* PaymentData: amount in hundredths, phone as a digit sequence
PaymentData(p) ==
    IF p = "p1"
    THEN [amount |-> 10099, currency |-> "KES", token |-> "tok-p1",
          order_id |-> "order-1", phone |-> <<0, 7, 1, 2>>]
    ELSE [amount |-> 5000, currency |-> "KES", token |-> "tok-p2",
          order_id |-> PyNone, phone |-> <<0, 7, 3, 4>>]

(* --------------------------- Python helpers ---------------------------- *)
EmptyDict == [k \in {} |-> ""]
\* a variable holding None instead of a dict
NoneData == [none |-> TRUE, d |-> EmptyDict]
Data(d) == [none |-> FALSE, d |-> d]
\* `if response_data:` -- None and {} are both falsy
Truthy(rd) == ~rd.none /\ DOMAIN rd.d # {}
\* dict.get(key, default)
DictGet(d, k, default) == IF k \in DOMAIN d THEN d[k] ELSE default
\* str(x) inside an f-string
Str(x) == IF x = PyNone THEN "None" ELSE x
\* int(Decimal): truncation of the fractional part
IntOf(amount) == amount \div 100
\* base64.b64encode, an injective encoding of its argument
b64encode(s) == "b64(" \o s \o ")"
\* timezone.now().strftime("%Y%m%d%H%M%S")
strftime(t) == ToString(t)

\* utils.generate_auth_string
generate_auth_string(c) ==
    b64encode(connection_params(c).consumer_key \o ":" \o connection_params(c).consumer_secret)

\* utils.generate_lipa_password
generate_lipa_password(timestamp, c) ==
    b64encode(connection_params(c).shortcode \o connection_params(c).passkey \o timestamp)

\* the bearer token the upstream issues for config c as its n-th token
IssuedToken(c, n) == "at-" \o c \o "-" \o ToString(n)

\* get_billing_data taking the reference from the payment
get_billing_data_OrderOrToken(p, c, t) ==
    LET shortcode == connection_params(c).shortcode
        timestamp == strftime(t)
        phone_number == Tail(PaymentData(p).phone)
    IN [BusinessShortCode |-> shortcode,
        Password |-> generate_lipa_password(timestamp, c),
        Timestamp |-> timestamp,
        TransactionType |-> "CustomerPayBillOnline",
        Amount |-> IntOf(PaymentData(p).amount),
        PartyA |-> phone_number,
        PartyB |-> shortcode,
        PhoneNumber |-> phone_number,
        CallBackURL |-> connection_params(c).callback_url,
        AccountReference |-> IF PaymentData(p).order_id # PyNone
                             THEN PaymentData(p).order_id
                             ELSE PaymentData(p).token,
        TransactionDesc |-> "M-PESA payment"]

\* get_billing_data
get_billing_data(p, c, t) ==
    LET shortcode == connection_params(c).shortcode
        timestamp == strftime(t)
        phone_number == Tail(PaymentData(p).phone)
    IN [BusinessShortCode |-> shortcode,
        Password |-> generate_lipa_password(timestamp, c),
        Timestamp |-> timestamp,
        TransactionType |-> "CustomerPayBillOnline",
        Amount |-> IntOf(PaymentData(p).amount),
        PartyA |-> phone_number,
        PartyB |-> shortcode,
        PhoneNumber |-> phone_number,
        CallBackURL |-> connection_params(c).callback_url,
        AccountReference |-> CURRENT_SITE_name,
        TransactionDesc |-> "M-PESA payment"]

\* get_refund_data
get_refund_data(p, c) ==
    [Initiator |-> connection_params(c).initiator_name,
     SecurityCredential |-> connection_params(c).initiator_security_credential,
     CommandID |-> "TransactionReversal",
     TransactionID |-> PaymentData(p).token,
     Amount |-> IntOf(PaymentData(p).amount),
     ReceiverParty |-> connection_params(c).shortcode,
     RecieverIdentifierType |-> "1",
     ResultURL |-> connection_params(c).callback_url,
     QueueTimeOutURL |-> connection_params(c).callback_url,
     Remarks |-> "Reversal",
     Occasion |-> "Payment refund"]

\* GatewayResponse(...)
GatewayResponse(success, action_required, kind, p, transaction_id, error, raw) ==
    [is_success |-> success,
     action_required |-> action_required,
     kind |-> kind,
     amount |-> PaymentData(p).amount,
     currency |-> PaymentData(p).currency,
     transaction_id |-> transaction_id,
     error |-> error,
     raw_response |-> raw]

NoResponse == GatewayResponse(FALSE, FALSE, "none", "p1", PyNone, PyNone, NoneData)

(* ------------------------------- state --------------------------------- *)
VARIABLES
    stack,      \* call stack of the running operation, innermost frame last
    cache,      \* django cache entry 'mpesa_auth_key': value and expiry time
    now,        \* the clock
    nextTok,    \* serial of the next token the upstream will issue
    http,       \* HTTP exchanges of the current top-level operation
    calls,      \* function activations of the current top-level operation
    rets,       \* activations that returned a GatewayResponse, in order
    result,     \* outcome of the top-level operation as the host sees it
    hook        \* the plugin hook the host called, if the operation came through one

vars == <<stack, cache, now, nextTok, http, calls, rets, result, hook>>

NoResult == [status |-> "none", op |-> "none", resp |-> NoResponse, exc |-> ""]

\* the operation was called directly, not through a hook of the plugin
NoHook == [name |-> "none", active |-> FALSE, previous |-> NoResponse]

Init ==
    /\ stack = <<>>
    /\ cache = [val |-> PyNone, exp |-> 0]
    /\ now = 0
    /\ nextTok = 1
    /\ http = <<>>
    /\ calls = <<>>
    /\ rets = <<>>
    /\ result = NoResult
    /\ hook = NoHook

(* ------------------------------ frames --------------------------------- *)
Frame(fn, p, c, cr) ==
    [fn |-> fn, pc |-> "begin", pay |-> p, cfg |-> c,
     access_token |-> PyNone, billing_data |-> EmptyDict,
     transaction_data |-> EmptyDict, refund_data |-> EmptyDict,
     response_data |-> NoneData, status |-> "none", xid |-> 0,
     error |-> PyNone, success |-> FALSE,
     capture_response |-> cr, confirmation |-> NoResponse,
     value |-> NoResponse]

Top == stack[Len(stack)]
Below == SubSeq(stack, 1, Len(stack) - 1)
Running(fn, pc) == stack # <<>> /\ Top.fn = fn /\ Top.pc = pc
SetTop(f) == [stack EXCEPT ![Len(stack)] = f]

\* one HTTP exchange: the request sent and the upstream's reply
Exchange(kind, c, path, auth, body, status, data) ==
    [kind |-> kind, cfg |-> c, url |-> connection_params(c).base_url \o path,
     auth |-> auth, body |-> body, status |-> status, data |-> data]

(* ---------------------------- token provider --------------------------- *)
\* utils.get_access_token: the token on a 2xx reply, None on any failure
get_access_token(c, outcome) ==
    IF outcome = "2xx" THEN IssuedToken(c, nextTok) ELSE PyNone

TokenExchange(c, outcome) ==
    Exchange("token", c, "oauth/v1/generate?grant_type=client_credentials",
             "Basic " \o generate_auth_string(c), EmptyDict, outcome,
             IF outcome = "2xx" THEN [access_token |-> IssuedToken(c, nextTok)]
             ELSE EmptyDict)

TokenOutcomes == {"2xx", "fail"}

\* cache.get(key)
CacheGet(ch, t) == IF ch.val # PyNone /\ t < ch.exp THEN ch.val ELSE PyNone

\* cache.get_or_set(key, default, timeout): the value returned; a None default
\* is returned without being stored
GetOrSetValue(ch, default, t) ==
    IF CacheGet(ch, t) = PyNone THEN default ELSE CacheGet(ch, t)

\* cache.get_or_set(key, default, timeout): the cache afterwards
GetOrSetCache(ch, default, t) ==
    IF CacheGet(ch, t) = PyNone /\ default # PyNone
    THEN [val |-> default, exp |-> t + CACHE_TTL]
    ELSE ch

\* _access_token keeping one cache entry per merchant configuration
AccessTokenValue_PerConfig(c, outcome) ==
    IF CacheGet(cache, now) \in {IssuedToken(c, n) : n \in 1..nextTok}
    THEN CacheGet(cache, now)
    ELSE get_access_token(c, outcome)

\* _access_token(config): get_access_token is evaluated as an argument, so the
\* token endpoint is asked on every call, then the cache decides the value
AccessTokenValue(c, outcome) == GetOrSetValue(cache, get_access_token(c, outcome), now)
AccessTokenCache(c, outcome) == GetOrSetCache(cache, get_access_token(c, outcome), now)
NextTokAfter(outcome) == IF outcome = "2xx" THEN nextTok + 1 ELSE nextTok

(* --------------------------- call and return --------------------------- *)
\* the hooks of MpesaGatewayPlugin and the activations that run them
Hooks == {"capture_payment", "confirm_payment", "refund_payment", "void_payment",
          "process_payment", "get_client_token", "get_payment_config"}
HookFn(name) == "plugin." \o name
HookFns == {HookFn(name) : name \in Hooks}

\* what a caller does with the value its callee returned
Deliver(st, resp) ==
    LET caller == st[Len(st)]
    IN IF caller.fn \in HookFns
       \* plugin lines 30 and 155-179: `return fn(...)`, `return capture(...)`
       THEN [st EXCEPT ![Len(st)] = [caller EXCEPT !.value = resp, !.pc = "return"]]
       ELSE IF caller.fn = "process_payment" /\ caller.pc = "capture_called"
       THEN [st EXCEPT ![Len(st)] = [caller EXCEPT !.capture_response = resp,
                                                   !.pc = "after_capture"]]
       ELSE IF caller.fn = "process_payment" /\ caller.pc = "confirm_called"
       THEN [st EXCEPT ![Len(st)] = [caller EXCEPT !.confirmation = resp,
                                                   !.pc = "return"]]
       \* capture line 104, confirm line 158: the callee's value is dropped
       ELSE [st EXCEPT ![Len(st)] = [caller EXCEPT !.pc = "return"]]

\* `return resp` of the innermost activation
ReturnValue(resp) ==
    /\ rets' = Append(rets, [fn |-> Top.fn, depth |-> Len(stack),
                             status |-> Top.status, xid |-> Top.xid, resp |-> resp])
    /\ IF Len(stack) = 1
       THEN /\ stack' = <<>>
            /\ result' = [status |-> "returned", op |-> Top.fn, resp |-> resp, exc |-> ""]
       ELSE /\ stack' = Deliver(Below, resp)
            /\ result' = result

\* an exception raised outside every try block unwinds the whole stack: the
\* recursive calls sit in except handlers and process_payment has no handler
Raise(exc) ==
    /\ stack' = <<>>
    /\ rets' = rets
    /\ result' = [status |-> "raised", op |-> stack[1].fn, resp |-> NoResponse, exc |-> exc]

\* the host starts operations only in the first MaxTime units of a cache window
InWindow(t) == t < 2 * CACHE_TTL /\ t % CACHE_TTL <= MaxTime

\* capture responses a host can hand to confirm: one a successful capture built
CaptureResponses ==
    { GatewayResponse(TRUE, FALSE, "capture", p, ck, PyNone,
                      Data([CheckoutRequestID |-> ck, ResponseCode |-> "0",
                            Timestamp |-> strftime(0)])) :
        p \in Payments, ck \in {"ws_CO_1"} }

\* the host calls one of the gateway functions
Invoke(fn, p, c, cr) ==
    /\ stack = <<>>
    /\ nextTok <= MaxTokens
    /\ InWindow(now)
    /\ stack' = <<Frame(fn, p, c, cr)>>
    /\ http' = <<>>
    /\ calls' = <<fn>>
    /\ rets' = <<>>
    /\ result' = NoResult
    /\ hook' = NoHook
    /\ UNCHANGED <<cache, now, nextTok>>

\* time passes between operations: a full cache lifetime
Elapse ==
    /\ stack = <<>>
    /\ now <= MaxTime
    /\ now' = now + CACHE_TTL
    /\ UNCHANGED <<hook, stack, cache, nextTok, http, calls, rets, result>>

(* ------------------------------- capture ------------------------------- *)
\* the upstream's answers to a push request
PushReplies ==
    {[status |-> "neterr", data |-> EmptyDict],
     [status |-> "nojson", data |-> EmptyDict],
     [status |-> "err", data |-> EmptyDict],
     [status |-> "err", data |-> [errorMessage |-> InvalidAccessToken]],
     [status |-> "err", data |-> [errorMessage |-> "Bad Request - Invalid PhoneNumber"]]}
    \cup {[status |-> "2xx", data |-> [CheckoutRequestID |-> ck, ResponseCode |-> "0"]] :
            ck \in CheckoutIds}

\* response_data after `response = requests.post(...); response_data = response.json()`
ResponseData(reply) ==
    IF reply.status \in {"neterr", "nojson"} THEN NoneData ELSE Data(reply.data)

\* capture retrying on any error body instead of the one message
CaptureRetries_AnyErrorBody(rd) == Truthy(rd)

\* capture lines 101-102: the failed push is retried
CaptureRetries(rd) ==
    Truthy(rd) /\ DictGet(rd.d, "errorMessage", PyNone) = InvalidAccessToken

\* capture lines 100-110: the error set by the except branch
CaptureError(rd) ==
    IF Truthy(rd)
    THEN IF CaptureRetries(rd) THEN PyNone ELSE CaptureBodyError
    ELSE CaptureInternalError

\* capture lines 98-113: the frame after the reply was handled
CaptureHandle(f, reply) ==
    LET rd == ResponseData(reply)
    IN IF reply.status = "2xx"
       THEN [f EXCEPT !.response_data =
                          Data([k \in DOMAIN rd.d \cup {"Timestamp"} |->
                                  IF k = "Timestamp" THEN f.billing_data.Timestamp
                                  ELSE rd.d[k]]),
                      !.status = reply.status,
                      !.success = TRUE,
                      !.pc = "return"]
       ELSE [f EXCEPT !.response_data = rd,
                      !.status = reply.status,
                      !.error = CaptureError(rd),
                      !.pc = IF CaptureRetries(rd) THEN "refresh" ELSE "return"]

\* the bearer header of a request
Bearer(access_token) == "Bearer " \o Str(access_token)

\* capture lines 83-88: billing data, then _access_token
CaptureBegin ==
    /\ Running("capture", "begin")
    /\ \E o \in TokenOutcomes :
         /\ stack' = SetTop([Top EXCEPT
                !.billing_data = get_billing_data(Top.pay, Top.cfg, now),
                !.access_token = AccessTokenValue(Top.cfg, o),
                !.pc = "post"])
         /\ cache' = AccessTokenCache(Top.cfg, o)
         /\ nextTok' = NextTokAfter(o)
         /\ http' = Append(http, TokenExchange(Top.cfg, o))
    /\ UNCHANGED <<hook, now, calls, rets, result>>

\* capture lines 89-113: the push request and the handling of its reply
CapturePost ==
    /\ Running("capture", "post")
    /\ \E reply \in PushReplies :
         /\ CaptureHandle(Top, reply).pc = "refresh" => Len(stack) < MaxDepth
         /\ stack' = SetTop([CaptureHandle(Top, reply) EXCEPT !.xid = Len(http) + 1])
         /\ http' = Append(http, Exchange("push", Top.cfg, "mpesa/stkpush/v1/processrequest",
                                          Bearer(Top.access_token), Top.billing_data,
                                          reply.status, reply.data))
    /\ UNCHANGED <<hook, cache, now, nextTok, calls, rets, result>>

\* capture lines 103-104: get_access_token (value dropped), then capture again
CaptureRefresh ==
    /\ Running("capture", "refresh")
    /\ \E o \in TokenOutcomes :
         /\ nextTok' = NextTokAfter(o)
         /\ http' = Append(http, TokenExchange(Top.cfg, o))
    /\ stack' = Append(SetTop([Top EXCEPT !.pc = "called"]),
                       Frame("capture", Top.pay, Top.cfg, NoResponse))
    /\ calls' = Append(calls, "capture")
    /\ UNCHANGED <<hook, cache, now, rets, result>>

\* capture lines 115-124: response_data.get on None raises AttributeError
CaptureReturn ==
    /\ Running("capture", "return")
    /\ IF Top.response_data.none
       THEN Raise("AttributeError")
       ELSE ReturnValue(GatewayResponse(Top.success, FALSE, "capture", Top.pay,
                DictGet(Top.response_data.d, "CheckoutRequestID", PaymentData(Top.pay).token),
                Top.error, Top.response_data))
    /\ UNCHANGED <<hook, cache, now, nextTok, http, calls>>

(* ------------------------------- confirm ------------------------------- *)
\* confirm stamping the status query with the current time
ConfirmTransactionData_CurrentTime(c, capture_response, t) ==
    [BusinessShortCode |-> connection_params(c).shortcode,
     Password |-> generate_lipa_password(strftime(t), c),
     Timestamp |-> strftime(t),
     CheckoutRequestID |-> capture_response.raw_response.d["CheckoutRequestID"]]

\* confirm lines 134-141: the status-query payload, from the capture response
ConfirmTransactionData(c, capture_response, t) ==
    LET timestamp == capture_response.raw_response.d["Timestamp"]
    IN [BusinessShortCode |-> connection_params(c).shortcode,
        Password |-> generate_lipa_password(timestamp, c),
        Timestamp |-> timestamp,
        CheckoutRequestID |-> capture_response.raw_response.d["CheckoutRequestID"]]

\* confirm lines 134 and 140: subscripting raw_response raises when it is None
\* or lacks the key
ConfirmSubscriptError(capture_response) ==
    IF capture_response.raw_response.none THEN "TypeError"
    ELSE IF {"Timestamp", "CheckoutRequestID"} \subseteq DOMAIN capture_response.raw_response.d
    THEN ""
    ELSE "KeyError"

\* the upstream's answers to a status query
QueryReplies(td) ==
    {[status |-> "neterr", data |-> EmptyDict],
     [status |-> "nojson", data |-> EmptyDict],
     [status |-> "err", data |-> EmptyDict],
     [status |-> "err", data |-> [errorMessage |-> BeingProcessed]],
     [status |-> "err", data |-> [errorMessage |-> "Bad Request - Invalid CheckoutRequestID"]]}
    \cup {[status |-> "2xx", data |-> [ResultDesc |-> desc,
                                       CheckoutRequestID |-> td.CheckoutRequestID]] :
            desc \in {ProcessedSuccessfully, "Request cancelled by user",
                      "The service request is processed successfully"}}

\* confirm matching the upstream message with a trailing full stop
ConfirmRetries_WrongMessage(rd) ==
    Truthy(rd) /\ DictGet(rd.d, "errorMessage", PyNone) = "The transaction is being processed."

\* confirm lines 155-156: the failed query is repeated
ConfirmRetries(rd) ==
    Truthy(rd) /\ DictGet(rd.d, "errorMessage", PyNone) = BeingProcessed

\* confirm lines 154-164: the error set by the except branch
ConfirmError(rd) ==
    IF Truthy(rd)
    THEN IF ConfirmRetries(rd) THEN PyNone ELSE ConfirmBodyError
    ELSE ConfirmInternalError

\* confirm comparing the description without its full stop
ConfirmSuccess_NoFullStop(rd) ==
    rd.d["ResultDesc"] \in {ProcessedSuccessfully,
                            "The service request is processed successfully"}

\* confirm line 166: the 2xx reply reports success
ConfirmSuccess(rd) == rd.d["ResultDesc"] = ProcessedSuccessfully

\* confirm lines 152-170: the frame after the reply was handled
ConfirmHandle(f, reply) ==
    LET rd == ResponseData(reply)
    IN IF reply.status = "2xx"
       THEN [f EXCEPT !.response_data = rd,
                      !.status = reply.status,
                      !.success = ConfirmSuccess(rd),
                      !.error = IF ConfirmSuccess(rd) THEN PyNone ELSE ConfirmDeclined,
                      !.pc = "return"]
       ELSE [f EXCEPT !.response_data = rd,
                      !.status = reply.status,
                      !.error = ConfirmError(rd),
                      !.pc = IF ConfirmRetries(rd) THEN "sleep" ELSE "return"]

\* confirm lines 129-141: _access_token, then the payload from capture_response
ConfirmBegin ==
    /\ Running("confirm", "begin")
    /\ \E o \in TokenOutcomes :
         /\ cache' = AccessTokenCache(Top.cfg, o)
         /\ nextTok' = NextTokAfter(o)
         /\ http' = Append(http, TokenExchange(Top.cfg, o))
         /\ IF ConfirmSubscriptError(Top.capture_response) # ""
            THEN Raise(ConfirmSubscriptError(Top.capture_response))
            ELSE /\ stack' = SetTop([Top EXCEPT
                        !.access_token = AccessTokenValue(Top.cfg, o),
                        !.transaction_data =
                            ConfirmTransactionData(Top.cfg, Top.capture_response, now),
                        !.pc = "post"])
                 /\ UNCHANGED <<rets, result>>
    /\ UNCHANGED <<hook, now, calls>>

\* confirm lines 143-170: the status query and the handling of its reply
ConfirmPost ==
    /\ Running("confirm", "post")
    /\ \E reply \in QueryReplies(Top.transaction_data) :
         /\ ConfirmHandle(Top, reply).pc = "sleep" => Len(stack) < MaxDepth
         /\ stack' = SetTop([ConfirmHandle(Top, reply) EXCEPT !.xid = Len(http) + 1])
         /\ http' = Append(http, Exchange("query", Top.cfg, "mpesa/stkpushquery/v1/query",
                                          Bearer(Top.access_token), Top.transaction_data,
                                          reply.status, reply.data))
    /\ UNCHANGED <<hook, cache, now, nextTok, calls, rets, result>>

\* confirm lines 157-158: sleep, then confirm again with the same arguments
ConfirmRetry ==
    /\ Running("confirm", "sleep")
    /\ now' = now + ConfirmSleep
    /\ stack' = Append(SetTop([Top EXCEPT !.pc = "called"]),
                       Frame("confirm", Top.pay, Top.cfg, Top.capture_response))
    /\ calls' = Append(calls, "confirm")
    /\ UNCHANGED <<hook, cache, nextTok, http, rets, result>>

\* confirm flagging every failure as needing the customer's action
ConfirmActionRequired_OnFailure(success) == ~success

\* confirm line 131: action_required is set once and never changed
ConfirmActionRequired(success) == FALSE

\* confirm lines 172-181: response_data.get on None raises AttributeError
ConfirmReturn ==
    /\ Running("confirm", "return")
    /\ IF Top.response_data.none
       THEN Raise("AttributeError")
       ELSE ReturnValue(GatewayResponse(Top.success, ConfirmActionRequired(Top.success),
                "capture", Top.pay,
                DictGet(Top.response_data.d, "CheckoutRequestID", PaymentData(Top.pay).token),
                Top.error, Top.response_data))
    /\ UNCHANGED <<hook, cache, now, nextTok, http, calls>>

(* -------------------------------- refund ------------------------------- *)
\* the upstream's answers to a reversal request
ReversalReplies ==
    {[status |-> "neterr", data |-> EmptyDict],
     [status |-> "nojson", data |-> EmptyDict],
     [status |-> "err", data |-> EmptyDict],
     [status |-> "err", data |-> [errorMessage |-> "Bad Request - Invalid Initiator"]]}
    \cup {[status |-> "2xx", data |-> [ResponseCode |-> code, ConversationID |-> "AG_1"]] :
            code \in {"0", "1"}}
    \cup {[status |-> "2xx", data |-> [ResponseCode |-> code, ConversationID |-> "AG_1",
                                       ResponseDescription |-> desc]] :
            code \in {"0", "1"}, desc \in {PyNone, "Accept the service request successfully."}}

\* refund line 207
RefundSuccess(rd) ==
    /\ DictGet(rd.d, "ResponseDescription", PyNone) # PyNone
    /\ DictGet(rd.d, "ResponseCode", PyNone) = "0"

\* refund lines 205 and 214: the error of a reply that is not a success
RefundError(status, rd) ==
    IF status = "2xx"
    THEN DictGet(rd.d, "ResponseDescription", PyNone)
    ELSE DictGet(rd.d, "errorMessage", RefundInternalError)

\* refund lines 201-214: the frame after the reply was handled
RefundHandle(f, reply) ==
    LET rd == ResponseData(reply)
    IN [f EXCEPT !.response_data = rd,
                 !.status = reply.status,
                 !.success = reply.status = "2xx" /\ RefundSuccess(rd),
                 !.error = IF reply.status = "2xx" /\ RefundSuccess(rd) THEN PyNone
                           ELSE RefundError(reply.status, rd),
                 !.pc = "return"]

\* refund lines 185-190: _access_token, then the reversal payload
RefundBegin ==
    /\ Running("refund", "begin")
    /\ \E o \in TokenOutcomes :
         /\ stack' = SetTop([Top EXCEPT
                !.access_token = AccessTokenValue(Top.cfg, o),
                !.refund_data = get_refund_data(Top.pay, Top.cfg),
                !.pc = "post"])
         /\ cache' = AccessTokenCache(Top.cfg, o)
         /\ nextTok' = NextTokAfter(o)
         /\ http' = Append(http, TokenExchange(Top.cfg, o))
    /\ UNCHANGED <<hook, now, calls, rets, result>>

\* refund lines 192-214: the reversal request and the handling of its reply;
\* line 205 calls response_data.get inside the except branch, which raises
\* AttributeError when no body was parsed
RefundPost ==
    /\ Running("refund", "post")
    /\ \E reply \in ReversalReplies :
         /\ http' = Append(http, Exchange("reversal", Top.cfg, "mpesa/reversal/v1/request",
                                          Bearer(Top.access_token), Top.refund_data,
                                          reply.status, reply.data))
         /\ IF ResponseData(reply).none
            THEN Raise("AttributeError")
            ELSE /\ stack' = SetTop([RefundHandle(Top, reply) EXCEPT !.xid = Len(http) + 1])
                 /\ UNCHANGED <<rets, result>>
    /\ UNCHANGED <<hook, cache, now, nextTok, calls>>

\* refund lines 216-225
RefundReturn ==
    /\ Running("refund", "return")
    /\ ReturnValue(GatewayResponse(Top.success, FALSE, "refund", Top.pay,
            DictGet(Top.response_data.d, "ConversationID", PaymentData(Top.pay).token),
            Top.error, Top.response_data))
    /\ UNCHANGED <<hook, cache, now, nextTok, http, calls>>

(* --------------------------------- void -------------------------------- *)
\* void fetching an access token first, as the other operations do
Void_AsksForToken ==
    /\ Running("void", "begin")
    /\ \E o \in TokenOutcomes :
         /\ cache' = AccessTokenCache(Top.cfg, o)
         /\ nextTok' = NextTokAfter(o)
         /\ http' = Append(http, TokenExchange(Top.cfg, o))
    /\ ReturnValue(GatewayResponse(TRUE, FALSE, "void", Top.pay,
                                   PaymentData(Top.pay).token, PyNone, NoneData))
    /\ UNCHANGED <<hook, now, calls>>

\* void lines 69-78
Void ==
    /\ Running("void", "begin")
    /\ ReturnValue(GatewayResponse(TRUE, FALSE, "void", Top.pay,
                                   PaymentData(Top.pay).token, PyNone, NoneData))
    /\ UNCHANGED <<hook, cache, now, nextTok, http, calls>>

(* ---------------------------- process_payment -------------------------- *)
\* process_payment line 233: `if capture_request.error:`
CaptureFailed(capture_request) ==
    capture_request.error # PyNone /\ capture_request.error # ""

\* process_payment line 232: call capture
ProcessBegin ==
    /\ Running("process_payment", "begin")
    /\ stack' = Append(SetTop([Top EXCEPT !.pc = "capture_called"]),
                       Frame("capture", Top.pay, Top.cfg, NoResponse))
    /\ calls' = Append(calls, "capture")
    /\ UNCHANGED <<hook, cache, now, nextTok, http, rets, result>>

\* process_payment lines 233-237: return a failed capture, else sleep and confirm
ProcessAfterCapture ==
    /\ Running("process_payment", "after_capture")
    /\ IF CaptureFailed(Top.capture_response)
       THEN /\ ReturnValue(Top.capture_response)
            /\ UNCHANGED <<now, calls>>
       ELSE /\ now' = now + ProcessSleep
            /\ stack' = Append(SetTop([Top EXCEPT !.pc = "confirm_called"]),
                               Frame("confirm", Top.pay, Top.cfg, Top.capture_response))
            /\ calls' = Append(calls, "confirm")
            /\ UNCHANGED <<rets, result>>
    /\ UNCHANGED <<hook, cache, nextTok, http>>

\* process_payment line 238
ProcessReturn ==
    /\ Running("process_payment", "return")
    /\ ReturnValue(Top.confirmation)
    /\ UNCHANGED <<hook, cache, now, nextTok, http, calls>>

(* ------------------------- MpesaGatewayPlugin -------------------------- *)
\* values a host passes as previous_value: None or an earlier plugin's response
NonePrevious == [kind |-> "None"]
PreviousResponse ==
    GatewayResponse(TRUE, FALSE, "auth", "p1", "earlier-plugin", PyNone, NoneData)
PreviousValues == {NonePrevious, PreviousResponse}

\* str(uuid.uuid4()) of get_client_token
ClientTokens == {"uuid-1", "uuid-2"}

\* the wrapper calling the hook whether or not the plugin is active
PluginRuns_Always(active) == TRUE

\* require_active_plugin lines 28-30: the hook body runs only when active
PluginRuns(active) == active

\* require_active_plugin lines 25-27: the host calls the hook with the keyword
\* previous_value; the stored plugin configuration (active flag and settings)
\* is re-read on every call
HookEnter(name, active, previous) ==
    /\ stack = <<>>
    /\ nextTok <= MaxTokens
    /\ InWindow(now)
    /\ hook' = [name |-> name, active |-> active, previous |-> previous]
    /\ http' = <<>>
    /\ rets' = <<>>
    /\ UNCHANGED <<cache, now, nextTok>>

\* the hook returns value to the host without calling anything
HookReturns(name, value) ==
    /\ stack' = <<>>
    /\ calls' = <<HookFn(name)>>
    /\ result' = [status |-> "returned", op |-> HookFn(name), resp |-> value, exc |-> ""]

\* the hook calls the gateway function fn with (payment_information, config)
HookCalls(name, fn, p, c) ==
    /\ stack' = <<[Frame(HookFn(name), p, c, NoResponse) EXCEPT !.pc = "called"],
                  Frame(fn, p, c, NoResponse)>>
    /\ calls' = <<HookFn(name), fn>>
    /\ result' = NoResult

\* the call in the hook raises before the function is entered
HookRaises(name, exc) ==
    /\ stack' = <<>>
    /\ calls' = <<HookFn(name)>>
    /\ result' = [status |-> "raised", op |-> HookFn(name), resp |-> NoResponse, exc |-> exc]

\* plugin lines 151-155
capture_payment ==
    \E p \in Payments, c \in Configs, active \in BOOLEAN, previous \in PreviousValues :
        /\ HookEnter("capture_payment", active, previous)
        /\ IF PluginRuns(active)
           THEN HookCalls("capture_payment", "capture", p, c)
           ELSE HookReturns("capture_payment", previous)

\* plugin lines 157-161: confirm is called without its capture_response
\* argument, which raises TypeError
confirm_payment ==
    \E p \in Payments, c \in Configs, active \in BOOLEAN, previous \in PreviousValues :
        /\ HookEnter("confirm_payment", active, previous)
        /\ IF PluginRuns(active)
           THEN HookRaises("confirm_payment", "TypeError")
           ELSE HookReturns("confirm_payment", previous)

\* plugin lines 163-167
refund_payment ==
    \E p \in Payments, c \in Configs, active \in BOOLEAN, previous \in PreviousValues :
        /\ HookEnter("refund_payment", active, previous)
        /\ IF PluginRuns(active)
           THEN HookCalls("refund_payment", "refund", p, c)
           ELSE HookReturns("refund_payment", previous)

\* plugin lines 169-173
void_payment ==
    \E p \in Payments, c \in Configs, active \in BOOLEAN, previous \in PreviousValues :
        /\ HookEnter("void_payment", active, previous)
        /\ IF PluginRuns(active)
           THEN HookCalls("void_payment", "void", p, c)
           ELSE HookReturns("void_payment", previous)

\* plugin lines 175-179
plugin_process_payment ==
    \E p \in Payments, c \in Configs, active \in BOOLEAN, previous \in PreviousValues :
        /\ HookEnter("process_payment", active, previous)
        /\ IF PluginRuns(active)
           THEN HookCalls("process_payment", "process_payment", p, c)
           ELSE HookReturns("process_payment", previous)

\* plugin lines 187-189 and __init__ lines 25-26
get_client_token ==
    \E active \in BOOLEAN, previous \in PreviousValues, u \in ClientTokens :
        /\ HookEnter("get_client_token", active, previous)
        /\ IF PluginRuns(active)
           THEN HookReturns("get_client_token", [kind |-> "client_token", value |-> u])
           ELSE HookReturns("get_client_token", previous)

\* plugin lines 191-197
get_payment_config ==
    \E c \in Configs, active \in BOOLEAN, previous \in PreviousValues :
        /\ HookEnter("get_payment_config", active, previous)
        /\ IF PluginRuns(active)
           THEN HookReturns("get_payment_config",
                    [kind |-> "payment_config",
                     fields |-> <<[field |-> "shortcode",
                                   value |-> connection_params(c).shortcode],
                                  [field |-> "callback_url",
                                   value |-> connection_params(c).callback_url]>>])
           ELSE HookReturns("get_payment_config", previous)

\* plugin line 30 and lines 155-179: the hook returns what the function returned
HookReturn ==
    /\ stack # <<>>
    /\ Top.fn \in HookFns
    /\ Top.pc = "return"
    /\ ReturnValue(Top.value)
    /\ UNCHANGED <<hook, cache, now, nextTok, http, calls>>

(* ----------------------------- specification --------------------------- *)
CallCapture == \E p \in Payments, c \in Configs : Invoke("capture", p, c, NoResponse)
CallConfirm == \E p \in Payments, c \in Configs, cr \in CaptureResponses :
                   /\ cr.amount = PaymentData(p).amount
                   /\ Invoke("confirm", p, c, cr)
CallRefund == \E p \in Payments, c \in Configs : Invoke("refund", p, c, NoResponse)
CallVoid == \E p \in Payments, c \in Configs : Invoke("void", p, c, NoResponse)
CallProcessPayment ==
    \E p \in Payments, c \in Configs : Invoke("process_payment", p, c, NoResponse)

Next ==
    \/ CallCapture
    \/ CallConfirm
    \/ CallRefund
    \/ CallVoid
    \/ CallProcessPayment
    \/ Elapse
    \/ CaptureBegin
    \/ CapturePost
    \/ CaptureRefresh
    \/ CaptureReturn
    \/ ConfirmBegin
    \/ ConfirmPost
    \/ ConfirmRetry
    \/ ConfirmReturn
    \/ RefundBegin
    \/ RefundPost
    \/ RefundReturn
    \/ Void
    \/ ProcessBegin
    \/ ProcessAfterCapture
    \/ ProcessReturn
    \/ capture_payment
    \/ confirm_payment
    \/ refund_payment
    \/ void_payment
    \/ plugin_process_payment
    \/ get_client_token
    \/ get_payment_config
    \/ HookReturn

Spec == Init /\ [][Next]_vars

TypeOK ==
    /\ Len(stack) <= MaxDepth
    /\ now \in Nat
    /\ nextTok \in Nat
    /\ result.status \in {"none", "returned", "raised"}

(* ------------------------- reading the history ------------------------- *)
\* the exchanges of one kind in the current operation
Idx(kind) == {i \in DOMAIN http : http[i].kind = kind}
\* the top-level operation the host invoked
OpIs(fn) == calls # <<>> /\ calls[1] = fn
Activations(fn) == {i \in DOMAIN calls : calls[i] = fn}
Returned(fn) == {i \in DOMAIN rets : rets[i].fn = fn}
Rejected(i, msg) ==
    http[i].status = "err" /\ DictGet(http[i].data, "errorMessage", PyNone) = msg

(* -------------------------------- claims ------------------------------- *)
\* C1: whenever the capture that process_payment called returned a response
\* with is_success = false, process_payment invokes no confirm, sends no
\* status query and returns exactly that capture response.
C1_ShortCircuitOnFailedCapture ==
    OpIs("process_payment") =>
        \A i \in Returned("capture") :
            (rets[i].depth = 2 /\ ~rets[i].resp.is_success) =>
                /\ Activations("confirm") = {}
                /\ Idx("query") = {}
                /\ result.status # "raised"
                /\ result.status = "returned" => result.resp = rets[i].resp

\* C2: capture, confirm and refund never end in a raised exception, whatever
\* the upstream did.
C2_NoExceptionCrosses ==
    result.status = "raised" => result.op \notin {"capture", "confirm", "refund"}

\* C3: every response returned by capture, confirm, refund or void is a
\* success without error or carries a non-null error.
C3_SuccessOrError ==
    \A i \in DOMAIN rets :
        rets[i].fn \in {"capture", "confirm", "refund", "void"} =>
            IF rets[i].resp.is_success
            THEN rets[i].resp.error = PyNone
            ELSE rets[i].resp.error # PyNone

\* C4: the push request that follows an 'Invalid Access Token' rejection does
\* not carry the rejected token.
C4_RetryCarriesNewToken ==
    \A i \in Idx("push"), j \in Idx("push") :
        (i < j /\ Rejected(i, InvalidAccessToken)
               /\ \A k \in Idx("push") : ~(i < k /\ k < j))
            => http[j].auth # http[i].auth

\* C5 as stated: one invocation sends at most two push requests and at most
\* two status queries.
C5_AtMostTwoRequests ==
    /\ Cardinality(Idx("push")) <= 2
    /\ Cardinality(Idx("query")) <= 2

\* C5 as amended: each activation of capture (confirm) sends at most one push
\* request (status query), and a further activation happens only after an
\* 'Invalid Access Token' ('being processed') reply, so the requests number at
\* most one more than those replies.
C5_OneRequestPerRetryReply ==
    /\ Cardinality(Idx("push")) <= Cardinality(Activations("capture"))
    /\ Cardinality(Idx("query")) <= Cardinality(Activations("confirm"))
    /\ Cardinality(Idx("push")) <=
           1 + Cardinality({i \in Idx("push") : Rejected(i, InvalidAccessToken)})
    /\ Cardinality(Idx("query")) <=
           1 + Cardinality({i \in Idx("query") : Rejected(i, BeingProcessed)})

\* a capture that sent three push requests, and a confirm that sent three queries
C5_Witness ==
    \/ OpIs("capture") /\ Cardinality(Idx("push")) >= 3 /\ result.status = "returned"
    \/ OpIs("confirm") /\ Cardinality(Idx("query")) >= 3 /\ result.status = "returned"

AllBeingProcessed ==
    /\ OpIs("confirm") \/ OpIs("process_payment")
    /\ Idx("query") # {}
    /\ \A i \in Idx("query") : Rejected(i, BeingProcessed)

\* C6: while every status query so far was answered 'The transaction is being
\* processed', no confirm activation has returned and the operation is still
\* running: the innermost confirm is about to sleep or to poll again.
C6_BeingProcessedNeverReturns ==
    AllBeingProcessed =>
        /\ Returned("confirm") = {}
        /\ result.status = "none"
        /\ stack # <<>>
        /\ Top.fn = "confirm"
        /\ Top.pc \in {"sleep", "begin", "post"}
        /\ Cardinality(Activations("confirm")) >= Cardinality(Idx("query"))

\* confirm polled twice, both polls were answered 'being processed'
C6_Witness ==
    /\ OpIs("confirm")
    /\ AllBeingProcessed
    /\ Top.pc = "sleep"
    /\ Cardinality(Idx("query")) >= 2

\* C7: no push request and no status query is sent without an access token.
C7_AbsentTokenIsFatal ==
    \A i \in Idx("push") \cup Idx("query") : http[i].auth # Bearer(PyNone)

\* C8: in process_payment a capture answered 2xx returns success with the
\* request timestamp and the replied checkout-session id in its raw payload,
\* and every status query carries that timestamp, that id and the password of
\* the push request.
C8_ConfirmUsesCapturePayload ==
    /\ \A i \in Returned("capture") :
           rets[i].status = "2xx" =>
               /\ rets[i].resp.is_success
               /\ rets[i].resp.raw_response.d["Timestamp"] = http[rets[i].xid].body.Timestamp
               /\ rets[i].resp.raw_response.d["CheckoutRequestID"] =
                      http[rets[i].xid].data["CheckoutRequestID"]
    /\ OpIs("process_payment") =>
           \A q \in Idx("query") :
               \E i \in Returned("capture") :
                   /\ rets[i].depth = 2
                   /\ rets[i].status = "2xx"
                   /\ http[q].body.Timestamp = http[rets[i].xid].body.Timestamp
                   /\ http[q].body.Password = http[rets[i].xid].body.Password
                   /\ http[q].body.CheckoutRequestID =
                          http[rets[i].xid].data["CheckoutRequestID"]

\* process_payment sent its status query, ten units after the push
C8_Witness ==
    /\ OpIs("process_payment")
    /\ Idx("query") # {}
    /\ \E q \in Idx("query") : http[q].body.Timestamp # strftime(now)

\* C9: a confirm activation answered 2xx returns is_success = true exactly
\* when the result description is 'The service request is processed
\* successfully.', and the declined error otherwise.
C9_ConfirmMapsResultDesc ==
    \A i \in Returned("confirm") :
        rets[i].status = "2xx" =>
            /\ rets[i].resp.is_success <=>
                   http[rets[i].xid].data["ResultDesc"] = ProcessedSuccessfully
            /\ ~rets[i].resp.is_success => rets[i].resp.error = ConfirmDeclined
            /\ rets[i].resp.is_success => rets[i].resp.error = PyNone

\* a confirm answered 2xx with the success description lacking its full stop
C9_Witness ==
    \E i \in Returned("confirm") :
        /\ rets[i].status = "2xx"
        /\ http[rets[i].xid].data["ResultDesc"] = "The service request is processed successfully"
        /\ ~rets[i].resp.is_success
        /\ rets[i].resp.error = ConfirmDeclined

\* C10: refund returns success exactly on a 2xx reply with response code "0"
\* and a non-null description, the upstream description as error on any other
\* 2xx reply, and on a failed request a failure carrying the upstream error
\* message or the generic internal-error message.
C10_RefundMapping ==
    OpIs("refund") =>
        \A x \in Idx("reversal") :
            /\ result.status # "raised"
            /\ result.status = "returned" =>
                 IF http[x].status = "2xx"
                 THEN /\ result.resp.is_success <=>
                            /\ DictGet(http[x].data, "ResponseCode", PyNone) = "0"
                            /\ DictGet(http[x].data, "ResponseDescription", PyNone) # PyNone
                      /\ ~result.resp.is_success =>
                            result.resp.error =
                                DictGet(http[x].data, "ResponseDescription", PyNone)
                 ELSE /\ ~result.resp.is_success
                      /\ result.resp.error =
                            DictGet(http[x].data, "errorMessage", RefundInternalError)


\* C11 as stated: every failed response of confirm has action_required = true.
C11_FailedConfirmActionRequired ==
    \A i \in Returned("confirm") :
        ~rets[i].resp.is_success => rets[i].resp.action_required

\* C11 as amended: confirm never sets the flag; every response it returns,
\* failed or not, has action_required = false.
C11_ConfirmNeverActionRequired ==
    \A i \in Returned("confirm") : ~rets[i].resp.action_required

\* confirm returned failures of both kinds: an error body and a declined 2xx
C11_Witness ==
    /\ \E i \in Returned("confirm") :
           /\ ~rets[i].resp.is_success
           /\ rets[i].resp.error = ConfirmDeclined
    /\ \E i \in Returned("confirm") :
           /\ ~rets[i].resp.is_success
           /\ rets[i].resp.error = PyNone


\* C12: the step in which void runs returns a response with is_success = true,
\* sends no request and leaves the token cache, the token endpoint and the
\* clock as they were, whatever the payment and the configuration.
C12_VoidSucceedsWithoutUpstream ==
    [][Running("void", "begin") =>
          /\ http' = http
          /\ cache' = cache
          /\ nextTok' = nextTok
          /\ now' = now
          /\ Len(rets') = Len(rets) + 1
          /\ rets'[Len(rets')].fn = "void"
          /\ rets'[Len(rets')].resp.is_success
          /\ rets'[Len(rets')].resp.error = PyNone]_vars

\* void returned while the cache held a token of an earlier operation
C12_Witness ==
    /\ OpIs("void")
    /\ result.status = "returned"
    /\ result.resp.is_success
    /\ result.resp.kind = "void"
    /\ http = <<>>
    /\ CacheGet(cache, now) # PyNone


\* C13: a hook called while the plugin is inactive returns the caller's
\* previous value, activates no gateway function and sends no request.
C13_InactiveHookReturnsPrevious ==
    (hook.name \in Hooks /\ ~hook.active) =>
        /\ stack = <<>>
        /\ result.status = "returned"
        /\ result.resp = hook.previous
        /\ calls = <<HookFn(hook.name)>>
        /\ rets = <<>>
        /\ http = <<>>

\* the inactive process-payment hook handed back an earlier plugin's response
C13_Witness ==
    /\ hook.name = "process_payment"
    /\ ~hook.active
    /\ hook.previous = PreviousResponse
    /\ result.status = "returned"
    /\ result.resp = PreviousResponse


\* the capture activations on the stack that have sent their push request
PushedFrames == {i \in DOMAIN stack : stack[i].fn = "capture" /\ stack[i].xid # 0}

\* C14 as stated: the account reference of a push request is the payment's
\* order identifier when present and the payment token otherwise.
C14_AccountReferenceFromPayment ==
    \A i \in PushedFrames :
        http[stack[i].xid].body.AccountReference =
            IF PaymentData(stack[i].pay).order_id # PyNone
            THEN PaymentData(stack[i].pay).order_id
            ELSE PaymentData(stack[i].pay).token

\* C14 as amended: the account reference of every push request is the name of
\* the current site, whatever the payment's order identifier and token.
C14_AccountReferenceIsSiteName ==
    /\ \A i \in PushedFrames :
           http[stack[i].xid].body.AccountReference = CURRENT_SITE_name
    /\ \A x \in Idx("push") : http[x].body.AccountReference = CURRENT_SITE_name

\* push requests were sent for a payment with an order and for one without
C14_Witness ==
    /\ PushedFrames # {}
    /\ \E i \in PushedFrames : PaymentData(stack[i].pay).order_id # PyNone
    /\ Idx("push") # {}


\* the last exchange of a kind in the current operation
LastOf(kind) == CHOOSE i \in Idx(kind) : \A j \in Idx(kind) : j <= i

\* C15: a confirm whose first poll was answered 'being processed' and whose
\* last poll was answered 2xx with the success description returns
\* is_success = true, and a capture whose first push was answered 'Invalid
\* Access Token' and whose retried push was answered 2xx returns is_success =
\* true with the retried reply's timestamp and checkout-session id.
C15_RetryOutcomeIsReturned ==
    /\ (/\ OpIs("confirm")
        /\ result.status = "returned"
        /\ Cardinality(Idx("query")) >= 2
        /\ http[LastOf("query")].status = "2xx"
        /\ http[LastOf("query")].data["ResultDesc"] = ProcessedSuccessfully)
           => result.resp.is_success
    /\ (/\ OpIs("capture")
        /\ result.status = "returned"
        /\ Cardinality(Idx("push")) >= 2
        /\ http[LastOf("push")].status = "2xx")
           => /\ result.resp.is_success
              /\ DictGet(result.resp.raw_response.d, "Timestamp", PyNone) =
                     http[LastOf("push")].body.Timestamp
              /\ DictGet(result.resp.raw_response.d, "CheckoutRequestID", PyNone) =
                     http[LastOf("push")].data["CheckoutRequestID"]


\* the gateway function behind each payment hook
GatewayFunction(name) ==
    CASE name = "capture_payment" -> "capture"
      [] name = "confirm_payment" -> "confirm"
      [] name = "refund_payment" -> "refund"
      [] name = "void_payment" -> "void"
      [] name = "process_payment" -> "process_payment"

\* C16: an active payment hook activates its gateway function, no call fails
\* for want of an argument, and what the hook returns is the response that
\* function returned.
C16_ActiveHookInvokesOperation ==
    (/\ hook.active
     /\ hook.name \in {"capture_payment", "confirm_payment", "refund_payment",
                       "void_payment", "process_payment"}) =>
        /\ Len(calls) >= 2
        /\ calls[2] = GatewayFunction(hook.name)
        /\ result.status = "raised" => result.exc # "TypeError"
        /\ result.status = "returned" =>
               \E i \in Returned(GatewayFunction(hook.name)) :
                   rets[i].depth = 2 /\ rets[i].resp = result.resp


\* the token requests in a history
TokenRequests(h) == {i \in DOMAIN h : h[i].kind = "token"}

\* capture, confirm or refund is about to call _access_token
AtAccessToken ==
    /\ stack # <<>>
    /\ Top.fn \in {"capture", "confirm", "refund"}
    /\ Top.pc = "begin"

\* C17: while the cache holds an unexpired token, the _access_token call of
\* capture, confirm or refund sends no request to the token endpoint.
C17_CachedTokenSparesEndpoint ==
    [][(AtAccessToken /\ CacheGet(cache, now) # PyNone) =>
          Cardinality(TokenRequests(http')) = Cardinality(TokenRequests(http))]_vars

\* C18: the cache entry is shared by all configurations: when capture, confirm
\* or refund calls _access_token while the cache holds an unexpired token, it
\* takes that token whichever configuration it runs for and leaves the entry
\* alone, and the request it then sends carries that token as bearer.
C18_CacheSharedAcrossConfigs ==
    /\ [](\A i \in DOMAIN stack :
             stack[i].xid # 0 =>
                 /\ http[stack[i].xid].auth = Bearer(stack[i].access_token)
                 /\ http[stack[i].xid].cfg = stack[i].cfg)
    /\ [][(/\ AtAccessToken
           /\ CacheGet(cache, now) # PyNone
           /\ Len(stack') = Len(stack)) =>
              /\ stack'[Len(stack')].access_token = CacheGet(cache, now)
              /\ stack'[Len(stack')].cfg = Top.cfg
              /\ cache' = cache]_vars

\* a request to configuration B's upstream carried the token issued to A
C18_Witness ==
    \E x \in Idx("push") \cup Idx("query") \cup Idx("reversal") :
        /\ http[x].cfg = "B"
        /\ http[x].auth = Bearer(IssuedToken("A", 1))

====
